---- MODULE Spec2Model ----
(***************************************************************************)
(* Model of cli-tool/src/index.js: the doctest extraction pipeline         *)
(* (gatherDocTest, gatherSymbolDocTests, gatherFileDocTests,               *)
(* gatherProgramDocTests) and the concurrent reporter doctestProgram.      *)
(*                                                                         *)
(* Conventions.  A JavaScript string is a sequence of one-character        *)
(* strings.  A value that may be `undefined` is a sequence of length at    *)
(* most one: <<>> is undefined and <<v>> is the defined value v.  An       *)
(* object used as a mapping (linked.sourceFiles, fileSym.exports) is the   *)
(* sequence of its values in key order.                                    *)
(***************************************************************************)
EXTENDS Integers, Sequences, FiniteSets, TLC

VARIABLES linked, pc, docTests, calls, status, firstRaised, allP, symP, fileP, out

vars == <<linked, pc, docTests, calls, status, firstRaised, allP, symP, fileP, out>>

(***************************************************************************)
(* Bounds of the explored inputs.                                          *)
(***************************************************************************)
\* Size of a linked program: one per source file, one per exported symbol,
\* one per custom tag.
MaxSize == 5

\* Error messages a call of runTest may raise.
Errors == {"E1", "E2"}

\* The error the call for the t-th test of a symbol raises when it fails:
\* neighbouring tests fail with different messages.
ErrorOf(id) == IF id[3] % 2 = 1 THEN "E1" ELSE "E2"

(***************************************************************************)
(* undefined and isDefined                                                 *)
(***************************************************************************)
Undefined == <<>>

Some(v) == <<v>>

isDefined(arg) == arg # Undefined

\* xs.filter(isDefined): the defined values of xs, in order.
RECURSIVE FilterDefined(_)
FilterDefined(xs) ==
  IF xs = <<>> THEN <<>>
  ELSE IF isDefined(Head(xs))
       THEN <<Head(xs)[1]>> \o FilterDefined(Tail(xs))
       ELSE FilterDefined(Tail(xs))

(***************************************************************************)
(* String primitives used by gatherDocTest                                 *)
(***************************************************************************)
\* content.join(''): the fragments concatenated.
RECURSIVE Join(_)
Join(frags) ==
  IF frags = <<>> THEN <<>> ELSE Head(frags) \o Join(Tail(frags))

\* str.split('\n'): the pieces between newline characters; never empty.
RECURSIVE Split(_)
Split(str) ==
  IF \A i \in DOMAIN str : str[i] # "\n"
  THEN <<str>>
  ELSE LET k == CHOOSE i \in DOMAIN str :
                  /\ str[i] = "\n"
                  /\ \A j \in 1..(i - 1) : str[j] # "\n"
       IN  <<SubSeq(str, 1, k - 1)>> \o Split(SubSeq(str, k + 1, Len(str)))

WhiteSpace == {" ", "\t", "\n", "\r"}

\* s.trim(): leading and trailing white space removed.
RECURSIVE Trim(_)
Trim(s) ==
  IF s = <<>> THEN s
  ELSE IF s[1] \in WhiteSpace THEN Trim(Tail(s))
  ELSE IF s[Len(s)] \in WhiteSpace THEN Trim(SubSeq(s, 1, Len(s) - 1))
  ELSE s

ImportToken == <<"i", "m", "p", "o", "r", "t">>

\* s.indexOf('import') === 0
StartsWithImport(s) ==
  /\ Len(s) >= Len(ImportToken)
  /\ SubSeq(s, 1, Len(ImportToken)) = ImportToken

(***************************************************************************)
(* gatherDocTest                                                           *)
(***************************************************************************)
\* The guard of the forEach callback: typeof s === 'string' && s !== '\n'.
\* Every element of a split result is a string.
KeepLine(s) == s # <<"\n">>

\* Variant: the line is tested without trimming.
IsImportLine_NoTrim(s) == StartsWithImport(s)

IsImportLine(s) == StartsWithImport(Trim(s))

\* The kept lines of xs that are (wantImport) or are not (~wantImport) import
\* lines, in order: the pushes of the forEach callback onto one of the arrays.
RECURSIVE SelectLines(_, _)
SelectLines(xs, wantImport) ==
  IF xs = <<>> THEN <<>>
  ELSE IF KeepLine(Head(xs)) /\ (IsImportLine(Head(xs)) = wantImport)
       THEN <<Head(xs)>> \o SelectLines(Tail(xs), wantImport)
       ELSE SelectLines(Tail(xs), wantImport)

\* Variant: the lines are stored trimmed.
gatherDocTest_StoresTrimmed(tag) ==
  IF ~isDefined(tag.content) THEN Undefined
  ELSE LET lines == Split(Join(tag.content[1]))
           code == SelectLines(lines, FALSE)
           imports == SelectLines(lines, TRUE)
       IN  Some([codeArray    |-> [i \in DOMAIN code |-> Trim(code[i])],
                 importsArray |-> [i \in DOMAIN imports |-> Trim(imports[i])]])

\* `!content` for an optional array: only undefined is falsy.
gatherDocTest(tag) ==
  IF ~isDefined(tag.content) THEN Undefined
  ELSE LET lines == Split(Join(tag.content[1]))
       IN  Some([codeArray    |-> SelectLines(lines, FALSE),
                 importsArray |-> SelectLines(lines, TRUE)])

(***************************************************************************)
(* gatherSymbolDocTests                                                    *)
(***************************************************************************)
TestTagNames == {"example", "doctest"}

\* Variant: tag names that only resemble the two names are accepted too.
examplesOf_Loose(customTags) ==
  SelectSeq(customTags, LAMBDA ct : ct.tagName \in TestTagNames \cup {"Example", "examples"})

\* customTags.filter(ct => ['example', 'doctest'].indexOf(ct.tagName) >= 0)
examplesOf(customTags) == SelectSeq(customTags, LAMBDA ct : ct.tagName \in TestTagNames)

\* Variant: a symbol whose tags yield no test is not returned.
gatherSymbolDocTests_DropsEmpty(sym) ==
  IF ~isDefined(sym.documentation) THEN Undefined
  ELSE IF ~isDefined(sym.documentation[1].customTags) THEN Undefined
  ELSE LET examples == examplesOf(sym.documentation[1].customTags[1])
           tests == FilterDefined([i \in DOMAIN examples |-> gatherDocTest(examples[i])])
       IN  IF Len(tests) = 0 THEN Undefined
           ELSE Some([name |-> sym.name, tests |-> tests])

gatherSymbolDocTests(sym) ==
  IF ~isDefined(sym.documentation) THEN Undefined
  ELSE IF ~isDefined(sym.documentation[1].customTags) THEN Undefined
  ELSE LET examples == examplesOf(sym.documentation[1].customTags[1])
       IN  IF Len(examples) = 0 THEN Undefined
           ELSE Some([name  |-> sym.name,
                      tests |-> FilterDefined([i \in DOMAIN examples |->
                                                gatherDocTest(examples[i])])])

(***************************************************************************)
(* gatherFileDocTests                                                      *)
(***************************************************************************)
\* Variant: a file without symbol or export table is returned, empty.
gatherFileDocTests_NeverNothing(file) ==
  IF ~isDefined(file.symbol) \/ ~isDefined(file.symbol[1].exports)
  THEN Some([name |-> file.moduleName, symbols |-> <<>>])
  ELSE LET exportSyms == FilterDefined(file.symbol[1].exports[1])
       IN  Some([name    |-> file.moduleName,
                 symbols |-> FilterDefined([i \in DOMAIN exportSyms |->
                                              gatherSymbolDocTests(exportSyms[i])])])

\* Variant: a file none of whose symbols has tests is not returned.
gatherFileDocTests_DropsEmpty(file) ==
  IF ~isDefined(file.symbol) THEN Undefined
  ELSE IF ~isDefined(file.symbol[1].exports) THEN Undefined
  ELSE LET exportSyms == FilterDefined(file.symbol[1].exports[1])
           syms == FilterDefined([i \in DOMAIN exportSyms |->
                                    gatherSymbolDocTests(exportSyms[i])])
       IN  IF Len(syms) = 0 THEN Undefined
           ELSE Some([name |-> file.moduleName, symbols |-> syms])

gatherFileDocTests(file) ==
  IF ~isDefined(file.symbol) THEN Undefined
  ELSE IF ~isDefined(file.symbol[1].exports) THEN Undefined
  ELSE LET exportSyms == FilterDefined(file.symbol[1].exports[1])
       IN  Some([name    |-> file.moduleName,
                 symbols |-> FilterDefined([i \in DOMAIN exportSyms |->
                                              gatherSymbolDocTests(exportSyms[i])])])

(***************************************************************************)
(* gatherProgramDocTests                                                   *)
(***************************************************************************)
gatherProgramDocTests(lnk) ==
  LET files == FilterDefined(lnk.sourceFiles)
  IN  FilterDefined([i \in DOMAIN files |-> gatherFileDocTests(files[i])])

(***************************************************************************)
(* Inputs: the linked programs explored                                    *)
(***************************************************************************)
ContentA == << <<"i", "m", "p", "o", "r", "t", " ", "a", "\n">>, <<"a", "(", ")">> >>

ContentB == << <<"b", "(", ")">> >>

ContentP == << <<"x">> >>

TagSamples ==
  { [tagName |-> "example", content |-> Some(ContentA)],
    [tagName |-> "doctest", content |-> Undefined],
    [tagName |-> "param",   content |-> Some(ContentP)] }

SymName(j) == "s" \o ToString(j)

ModuleName(i) == "m" \o ToString(i)

\* The symbols of size n (one plus the number of custom tags) named SymName(j).
SymbolsOfSize(n, j) ==
  IF n = 1
  THEN { [name |-> SymName(j), documentation |-> Undefined],
         [name |-> SymName(j), documentation |-> Some([customTags |-> Undefined])],
         [name |-> SymName(j), documentation |-> Some([customTags |-> Some(<<>>)])] }
  ELSE { [name |-> SymName(j), documentation |-> Some([customTags |-> Some(ts)])] :
           ts \in [1..(n - 1) -> TagSamples] }

\* The export tables of total size n whose first symbol is named SymName(j).
RECURSIVE ExportsOfSize(_, _)
ExportsOfSize(n, j) ==
  IF n = 0 THEN {<<>>}
  ELSE UNION { { <<Some(s)>> \o rest :
                   s \in SymbolsOfSize(k, j), rest \in ExportsOfSize(n - k, j + 1) } :
               k \in 1..n }

\* The entries of linked.sourceFiles of size n for the i-th key.
FilesOfSize(n, i) ==
  IF n = 1
  THEN { Undefined,
         Some([moduleName |-> ModuleName(i), symbol |-> Undefined]),
         Some([moduleName |-> ModuleName(i), symbol |-> Some([exports |-> Undefined])]),
         Some([moduleName |-> ModuleName(i), symbol |-> Some([exports |-> Some(<<>>)])]) }
  ELSE { Some([moduleName |-> ModuleName(i), symbol |-> Some([exports |-> Some(ex)])]) :
           ex \in ExportsOfSize(n - 1, 1) }

RECURSIVE SourceFilesOfSize(_, _)
SourceFilesOfSize(n, i) ==
  IF n = 0 THEN {<<>>}
  ELSE UNION { { <<f>> \o rest :
                   f \in FilesOfSize(k, i), rest \in SourceFilesOfSize(n - k, i + 1) } :
               k \in 1..n }

LinkedPrograms ==
  { [sourceFiles |-> sf] : sf \in UNION { SourceFilesOfSize(n, 1) : n \in 0..MaxSize } }

(***************************************************************************)
(* doctestProgram: the reporter                                            *)
(*                                                                         *)
(* pc       where doctestProgram is: "start" (awaiting findPkgJson),       *)
(*          "running" (awaiting the program-level Promise.all), "done"     *)
(*          (returned), "aborted" (threw: no package.json), "rejected"     *)
(*          (the program-level Promise.all rejected).                      *)
(* docTests the value of gatherProgramDocTests(linked).                    *)
(* calls    the calls of runTest, in call order.                           *)
(* status   per call <<f, s, t>>: "pending", "ok", or the error raised.    *)
(* firstRaised  history: per symbol <<f, s>> with tests, the call that     *)
(*          raised first in time (<<>> while none has).                    *)
(* allP     per symbol <<f, s>> with tests: its Promise.all(tests.map).    *)
(* symP     per symbol <<f, s>>: the promise of its async callback.        *)
(* fileP    per file f: the promise of its async callback.                 *)
(* out      the console.log lines, in print order.  A line is a record     *)
(*          of its kind, the interpolated name, the interpolated detail    *)
(*          (error or runTest argument) and `at`, the file or symbol       *)
(*          whose callback printed it.                                     *)
(*                                                                         *)
(* Scheduling.  JavaScript runs each callback to its next await without    *)
(* interruption, so the fan-out after setup is one step.  The reactions    *)
(* to a settled runTest promise are queued first-in first-out and every    *)
(* test callback is the same number of reactions away from its symbol's    *)
(* Promise.all, so the join observes the calls in the order in which they  *)
(* settle: Settle updates it in the same step.  The .then/.catch handlers  *)
(* and the resumptions of the file callbacks and of doctestProgram are     *)
(* steps of their own, interleaved freely with the settling of other       *)
(* calls.  A call may stay pending for ever: there are no timeouts.        *)
(***************************************************************************)
RECURSIVE Flatten(_)
Flatten(xss) == IF xss = <<>> THEN <<>> ELSE Head(xss) \o Flatten(Tail(xss))

SymIds(dt) ==
  UNION { { <<f, s>> : s \in DOMAIN dt[f].symbols } : f \in DOMAIN dt }

TestIds(dt) ==
  UNION { { <<id[1], id[2], t>> : t \in DOMAIN dt[id[1]].symbols[id[2]].tests } :
          id \in SymIds(dt) }

SymbolOf(dt, id) == dt[id[1]].symbols[id[2]]

TestsOf(dt, id) == SymbolOf(dt, id).tests

Line(kind, name, detail, at) ==
  [kind |-> kind, name |-> name, detail |-> detail, at |-> at]

\* The argument object of runTest built from test t.
RunTestArg(t) == [codeArray |-> t.codeArray, importsArray |-> t.importsArray]

\* Variant: only the first test is run.
LaunchedTests_FirstOnly(tests) == IF tests = <<>> THEN {} ELSE {1}

\* The tests of a symbol whose callback runs (tests.map runs every callback
\* up to its await).
LaunchedTests(tests) == DOMAIN tests

\* What the callback of symbol s of file f prints before it first suspends.
SymLaunchLines(dt, f, s) ==
  LET sym == dt[f].symbols[s]
  IN  IF Len(sym.tests) = 0
      THEN <<Line("symNone", sym.name, "", <<f, s>>)>>
      ELSE [t \in LaunchedTests(sym.tests) |->
              Line("invoking", "", RunTestArg(sym.tests[t]), <<f, s>>)]

\* The calls of runTest the callback of symbol s of file f makes.
SymLaunchCalls(dt, f, s) ==
  LET sym == dt[f].symbols[s]
  IN  [t \in LaunchedTests(sym.tests) |->
         [id |-> <<f, s, t>>, arg |-> RunTestArg(sym.tests[t])]]

\* Variant: the file line is printed once the symbol callbacks have started.
FileLaunchLines_HeaderLast(dt, f) ==
  IF Len(dt[f].symbols) = 0
  THEN <<Line("fileNone", dt[f].name, "", <<f>>)>>
  ELSE Flatten([s \in DOMAIN dt[f].symbols |-> SymLaunchLines(dt, f, s)])
       \o <<Line("file", dt[f].name, "", <<f>>)>>

\* What the callback of file f prints before it first suspends.
FileLaunchLines(dt, f) ==
  IF Len(dt[f].symbols) = 0
  THEN <<Line("fileNone", dt[f].name, "", <<f>>)>>
  ELSE <<Line("file", dt[f].name, "", <<f>>)>>
       \o Flatten([s \in DOMAIN dt[f].symbols |-> SymLaunchLines(dt, f, s)])

FileLaunchCalls(dt, f) ==
  Flatten([s \in DOMAIN dt[f].symbols |-> SymLaunchCalls(dt, f, s)])

Pending == [state |-> "pending", err |-> ""]

Fulfilled == [state |-> "fulfilled", err |-> ""]

Rejected(err) == [state |-> "rejected", err |-> err]

\* Variant: the package is looked up after the program was gathered and the
\* callbacks launched.
AbortNoPkg_AfterLaunch ==
  /\ pc = "start"
  /\ pc' = "aborted"
  /\ docTests' = gatherProgramDocTests(linked)
  /\ out' = Flatten([f \in DOMAIN docTests' |-> FileLaunchLines(docTests', f)])
  /\ calls' = Flatten([f \in DOMAIN docTests' |-> FileLaunchCalls(docTests', f)])
  /\ UNCHANGED <<linked, status, firstRaised, allP, symP, fileP>>

\* Line 141: `if (!pkg) throw`.
AbortNoPkg ==
  /\ pc = "start"
  /\ pc' = "aborted"
  /\ UNCHANGED <<linked, docTests, calls, status, firstRaised, allP, symP, fileP, out>>

\* Lines 144-193 up to the first suspension: the package was found, the
\* program is gathered, every file callback, symbol callback and test
\* callback runs synchronously up to its await.
Launch ==
  /\ pc = "start"
  /\ docTests' = gatherProgramDocTests(linked)
  /\ out' = Flatten([f \in DOMAIN docTests' |-> FileLaunchLines(docTests', f)])
  /\ calls' = Flatten([f \in DOMAIN docTests' |-> FileLaunchCalls(docTests', f)])
  /\ status' = [id \in { calls'[i].id : i \in DOMAIN calls' } |-> "pending"]
  /\ allP' = [id \in { i \in SymIds(docTests') : Len(TestsOf(docTests', i)) > 0 } |->
                Pending]
  /\ firstRaised' = [id \in DOMAIN allP' |-> <<>>]
  /\ symP' = [id \in SymIds(docTests') |->
                IF Len(TestsOf(docTests', id)) = 0 THEN Fulfilled ELSE Pending]
  /\ fileP' = [f \in DOMAIN docTests' |->
                IF Len(docTests'[f].symbols) = 0 THEN Fulfilled ELSE Pending]
  /\ pc' = "running"
  /\ UNCHANGED linked

\* Variant: a join that fulfils as soon as one callback fulfils.
PromiseAllTests_FirstSettles(all, outcome, others) ==
  IF all.state # "pending" THEN all
  ELSE IF outcome # "ok" THEN Rejected(outcome)
  ELSE Fulfilled

\* Variant: a join that keeps the error of the latest rejection.
PromiseAllTests_LastRejectWins(all, outcome, others) ==
  IF all.state = "fulfilled" THEN all
  ELSE IF outcome # "ok" THEN Rejected(outcome)
  ELSE IF all.state = "pending" /\ \A o \in others : o = "ok" THEN Fulfilled
  ELSE all

\* Promise.all over the test callbacks of one symbol, after one of them
\* settles with `outcome`: it rejects with the first error raised, fulfils
\* when the last callback has fulfilled, and never changes once settled.
PromiseAllTests(all, outcome, others) ==
  IF all.state # "pending" THEN all
  ELSE IF outcome # "ok" THEN Rejected(outcome)
  ELSE IF \A o \in others : o = "ok" THEN Fulfilled
  ELSE all

\* Line 185: the promise of one runTest call settles; the test callback
\* resumes and settles in turn, and the symbol's Promise.all observes it.
Settle(id, outcome) ==
  /\ id \in DOMAIN status
  /\ status[id] = "pending"
  /\ status' = [status EXCEPT ![id] = outcome]
  /\ LET sid == <<id[1], id[2]>>
         others == { status[j] : j \in { k \in DOMAIN status :
                                          /\ k[1] = id[1] /\ k[2] = id[2] /\ k # id } }
     IN  /\ allP' = [allP EXCEPT ![sid] = PromiseAllTests(allP[sid], outcome, others)]
         /\ firstRaised' = IF outcome \in Errors /\ firstRaised[sid] = <<>>
                           THEN [firstRaised EXCEPT ![sid] = id]
                           ELSE firstRaised
  /\ UNCHANGED <<linked, pc, docTests, calls, symP, fileP, out>>

\* Variant: no .catch, the rejection of the join is the symbol's.
HandledPromise_NoCatch(all) == all

\* The promise `.then(onOk).catch(onErr)` returns once a handler has run:
\* neither handler throws, so it fulfils.
HandledPromise(all) == Fulfilled

\* Line 188: the .then handler.
ThenHandler(sid) ==
  /\ sid \in DOMAIN allP
  /\ allP[sid].state = "fulfilled"
  /\ symP[sid].state = "pending"
  /\ out' = Append(out, Line("ok", SymbolOf(docTests, sid).name, "", sid))
  /\ symP' = [symP EXCEPT ![sid] = HandledPromise(allP[sid])]
  /\ UNCHANGED <<linked, pc, docTests, calls, status, firstRaised, allP, fileP>>

\* Line 189: the .catch handler; err is the reason the Promise.all rejected with.
CatchHandler(sid) ==
  /\ sid \in DOMAIN allP
  /\ allP[sid].state = "rejected"
  /\ symP[sid].state = "pending"
  /\ out' = Append(out, Line("fail", SymbolOf(docTests, sid).name, allP[sid].err, sid))
  /\ symP' = [symP EXCEPT ![sid] = HandledPromise(allP[sid])]
  /\ UNCHANGED <<linked, pc, docTests, calls, status, firstRaised, allP, fileP>>

\* Variant: a join that fulfils as soon as one promise fulfils.
PromiseAll_FirstSettles(ps) ==
  IF \E p \in ps : p.state = "rejected"
  THEN Rejected((CHOOSE p \in ps : p.state = "rejected").err)
  ELSE IF ps = {} \/ \E p \in ps : p.state = "fulfilled" THEN Fulfilled
  ELSE Pending

\* Promise.all over a set of promises whose order of settling is not
\* recorded: rejected once one is rejected, fulfilled once all are.
PromiseAll(ps) ==
  IF \E p \in ps : p.state = "rejected"
  THEN Rejected((CHOOSE p \in ps : p.state = "rejected").err)
  ELSE IF \A p \in ps : p.state = "fulfilled" THEN Fulfilled
  ELSE Pending

\* Lines 166-191: the file callback resumes from `await Promise.all(symbols.map)`
\* and returns, or rethrows the rejection.
FileJoin(f) ==
  /\ f \in DOMAIN fileP
  /\ fileP[f].state = "pending"
  /\ LET join == PromiseAll({ symP[id] : id \in { i \in DOMAIN symP : i[1] = f } })
     IN  /\ join.state # "pending"
         /\ fileP' = [fileP EXCEPT ![f] = join]
  /\ UNCHANGED <<linked, pc, docTests, calls, status, firstRaised, allP, symP, out>>

\* Lines 157-194: doctestProgram resumes from `await Promise.all(docTests.map)`
\* and returns, or rethrows the rejection.
ProgramJoin ==
  /\ pc = "running"
  /\ LET join == PromiseAll({ fileP[f] : f \in DOMAIN fileP })
     IN  /\ join.state # "pending"
         /\ pc' = IF join.state = "fulfilled" THEN "done" ELSE "rejected"
  /\ UNCHANGED <<linked, docTests, calls, status, firstRaised, allP, symP, fileP, out>>

(***************************************************************************)
(* Inputs of the reporter runs: programs whose tags all carry content,     *)
(* given by the number of tests of each symbol of each file.               *)
(***************************************************************************)
\* Files, symbols per file, and tests in the whole program.
MaxFiles == 2

MaxSyms == 2

MaxUnits == 3

TagAt(t) ==
  IF t % 2 = 1 THEN [tagName |-> "example", content |-> Some(ContentA)]
  ELSE [tagName |-> "doctest", content |-> Some(ContentB)]

TestedSymbol(n, j) ==
  [name |-> SymName(j),
   documentation |-> Some([customTags |-> Some([t \in 1..n |-> TagAt(t)])])]

\* Export tables of at most `syms` symbols, each with at least one test, with
\* exactly n tests together.
RECURSIVE TestedExports(_, _, _)
TestedExports(n, syms, j) ==
  IF n = 0 THEN {<<>>}
  ELSE IF syms = 0 THEN {}
  ELSE UNION { { <<Some(TestedSymbol(k, j))>> \o rest :
                   rest \in TestedExports(n - k, syms - 1, j + 1) } :
               k \in 1..n }

TestedFile(ex, i) ==
  Some([moduleName |-> ModuleName(i), symbol |-> Some([exports |-> Some(ex)])])

RECURSIVE TestedSourceFiles(_, _, _)
TestedSourceFiles(n, files, i) ==
  IF n = 0 THEN {<<>>}
  ELSE IF files = 0 THEN {}
  ELSE UNION { { <<TestedFile(ex, i)>> \o rest :
                   ex \in TestedExports(k, MaxSyms, 1),
                   rest \in TestedSourceFiles(n - k, files - 1, i + 1) } :
               k \in 1..n }

TestedPrograms ==
  { [sourceFiles |-> sf] :
      sf \in UNION { TestedSourceFiles(n, MaxFiles, 1) : n \in 1..MaxUnits } }

(***************************************************************************)
(* Specification                                                           *)
(***************************************************************************)
Init ==
  /\ linked \in LinkedPrograms \cup TestedPrograms
  /\ pc = "start"
  /\ docTests = <<>>
  /\ calls = <<>>
  /\ status = <<>>
  /\ firstRaised = <<>>
  /\ allP = <<>>
  /\ symP = <<>>
  /\ fileP = <<>>
  /\ out = <<>>

Next ==
  \/ AbortNoPkg
  \/ Launch
  \/ \E id \in DOMAIN status : \E outcome \in {"ok", ErrorOf(id)} : Settle(id, outcome)
  \/ \E sid \in DOMAIN allP : ThenHandler(sid)
  \/ \E sid \in DOMAIN allP : CatchHandler(sid)
  \/ \E f \in DOMAIN fileP : FileJoin(f)
  \/ ProgramJoin

Spec == Init /\ [][Next]_vars

(***************************************************************************)
(* Inputs of the extraction runs: one file exporting one symbol, with      *)
(* either one `example` tag whose content is a short sequence of           *)
(* fragments, or a short sequence of tags of various names.                *)
(***************************************************************************)
\* Fragments per content and tags per symbol.
MaxFrags == 2

MaxNameTags == 2

LineEmpty ==
  <<>>

LineCode ==
  << "a", "(", ")" >>

LineImport ==
  << "i", "m", "p", "o", "r", "t", " ", "a" >>

LineIndentedImport ==
  << " ", " ", "i", "m", "p", "o", "r", "t", " ", "x" >>

LineImportant ==
  << "i", "m", "p", "o", "r", "t", "a", "n", "t", "V", "a", "l", "u", "e",
     " ", "=", " ", "1" >>

LineComment ==
  << "/", "/", " ", "i", "m", "p", "o", "r", "t", " ", "x" >>

LineCR ==
  << "\r" >>

LineSamples ==
  { LineEmpty,
    LineCode,
    LineImport,
    LineIndentedImport,
    LineImportant,
    LineComment,
    LineCR }

\* A fragment is a sample line, with or without the newline that ends it.
FragSamples == LineSamples \cup { l \o <<"\n">> : l \in LineSamples }

MathImportLine ==
  << "i", "m", "p", "o", "r", "t", " ", "{", " ", "a", "d", "d", " ", "}",
     " ", "f", "r", "o", "m", " ", "\"", ".", "/", "m", "a", "t", "h",
     "\"", ";" >>

MathCodeLine ==
  << "a", "d", "d", "(", "1", ",", " ", "2", ")", ";", " ", "/", "/", " ",
     "3" >>

\* The content of the `add` example: two lines in two fragments.
ContentMath == << MathImportLine \o <<"\n">>, MathCodeLine >>

\* An import line split across two fragments.
ContentSplitImport == << <<"i", "m", "p">>, <<"o", "r", "t", " ", "x">> >>

Contents ==
  UNION { [1..n -> FragSamples] : n \in 0..MaxFrags }
    \cup { ContentMath, ContentSplitImport }

NameTagSamples ==
  { [tagName |-> "example",  content |-> Some(ContentA)],
    [tagName |-> "doctest",  content |-> Some(ContentB)],
    [tagName |-> "Example",  content |-> Some(ContentA)],
    [tagName |-> "examples", content |-> Some(ContentB)],
    [tagName |-> "param",    content |-> Some(ContentP)] }

\* The program of one file exporting one symbol with the given custom tags.
OneSymbolProgram(customTags) ==
  [sourceFiles |->
     << TestedFile(<< Some([name |-> SymName(1),
                            documentation |-> Some([customTags |-> Some(customTags)])]) >>,
                   1) >>]

ContentPrograms ==
  { OneSymbolProgram(<< [tagName |-> "example", content |-> c] >>) :
      c \in { Some(x) : x \in Contents } \cup { Undefined } }

NamePrograms ==
  { OneSymbolProgram(ts) : ts \in UNION { [1..n -> NameTagSamples] : n \in 0..MaxNameTags } }

\* One file exporting one symbol without documentation or without tag list.
UntaggedPrograms ==
  { [sourceFiles |-> << TestedFile(<< Some([name |-> SymName(1), documentation |-> doc]) >>, 1) >>] :
      doc \in { Undefined, Some([customTags |-> Undefined]) } }

InitTags ==
  /\ linked \in ContentPrograms \cup NamePrograms \cup UntaggedPrograms
  /\ pc = "start"
  /\ docTests = <<>>
  /\ calls = <<>>
  /\ status = <<>>
  /\ firstRaised = <<>>
  /\ allP = <<>>
  /\ symP = <<>>
  /\ fileP = <<>>
  /\ out = <<>>

SpecTags == InitTags /\ [][Next]_vars

(***************************************************************************)
(* Vocabulary of the properties                                            *)
(***************************************************************************)
\* doctestProgram has passed setup and fanned out.
Launched == pc \in {"running", "done", "rejected"}

\* The runTest calls of symbol sid.
IdsOf(sid) == { k \in DOMAIN status : k[1] = sid[1] /\ k[2] = sid[2] }

Raised(sid) == { k \in IdsOf(sid) : status[k] \in Errors }

Completed(sid) == { k \in IdsOf(sid) : status[k] = "ok" }

StillPending(sid) == { k \in IdsOf(sid) : status[k] = "pending" }

\* The positions in the report of the lines of one kind printed by `at`.
LinesAt(at, kind) == { i \in DOMAIN out : out[i].kind = kind /\ out[i].at = at }

ResultLines(sid) == LinesAt(sid, "ok") \cup LinesAt(sid, "fail")

CallsOf(id) == { i \in DOMAIN calls : calls[i].id = id }

(***************************************************************************)
(* C1                                                                      *)
(***************************************************************************)
\* C1: when one runTest call of a symbol has completed and another has
\* raised, the report never holds a success line for the symbol; once the
\* symbol's callback has settled (so whenever doctestProgram has returned)
\* it holds a failure line naming the symbol whose error is one raised by a
\* call of that symbol; every call of the symbol was made exactly once, and
\* a call still pending can always complete (nothing cancels it).
C1_MixedOutcomeReportsFailure ==
  \A sid \in DOMAIN allP :
    (Completed(sid) # {} /\ Raised(sid) # {}) =>
      /\ LinesAt(sid, "ok") = {}
      /\ (symP[sid].state # "pending" \/ pc = "done") =>
           \E i \in LinesAt(sid, "fail") :
             /\ out[i].name = SymbolOf(docTests, sid).name
             /\ out[i].detail \in { status[k] : k \in Raised(sid) }
      /\ \A k \in IdsOf(sid) : Cardinality(CallsOf(k)) = 1
      /\ \A k \in StillPending(sid) : ENABLED Settle(k, "ok")

\* A symbol with a completed and a raised call, reported after
\* doctestProgram returned.
C1_Witness ==
  /\ pc = "done"
  /\ \E sid \in DOMAIN allP :
       /\ Completed(sid) # {}
       /\ Raised(sid) # {}
       /\ LinesAt(sid, "fail") # {}

(***************************************************************************)
(* C2                                                                      *)
(***************************************************************************)
\* C2 as stated: a result line of a symbol is in the report only when none
\* of the symbol's runTest calls is pending.
C2_ResultOnlyAfterAllSettled ==
  \A sid \in DOMAIN allP : ResultLines(sid) # {} => StillPending(sid) = {}

\* C2 amended: a success line of a symbol is in the report only when every
\* runTest call of the symbol has completed; a failure line only when at
\* least one has raised (others may still be pending).
C2_ResultAfterJoin ==
  \A sid \in DOMAIN allP :
    /\ LinesAt(sid, "ok") # {} => Completed(sid) = IdsOf(sid)
    /\ LinesAt(sid, "fail") # {} => Raised(sid) # {}

\* A failure line printed while a call of the same symbol is pending.
C2_Witness ==
  \E sid \in DOMAIN allP : LinesAt(sid, "fail") # {} /\ StillPending(sid) # {}

(***************************************************************************)
(* C3                                                                      *)
(***************************************************************************)
\* C3: no callback promise and no join ever rejects, whatever calls raise;
\* when doctestProgram has returned every symbol with tests has a result
\* line; and the result of a symbol follows from its own calls alone: its
\* join is fulfilled exactly when all its calls completed, rejected exactly
\* when one raised, a success line needs all of its calls completed and a
\* failure line carries the error of one of its own calls.
C3_ErrorsStayAtTheSymbol ==
  /\ pc # "rejected"
  /\ \A f \in DOMAIN fileP : fileP[f].state # "rejected"
  /\ \A sid \in DOMAIN symP : symP[sid].state # "rejected"
  /\ \A sid \in DOMAIN allP :
       /\ pc = "done" => ResultLines(sid) # {}
       /\ allP[sid].state = "fulfilled" <=> Completed(sid) = IdsOf(sid)
       /\ allP[sid].state = "rejected" <=> Raised(sid) # {}
       /\ LinesAt(sid, "ok") # {} => Completed(sid) = IdsOf(sid)
       /\ \A i \in LinesAt(sid, "fail") :
            out[i].detail \in { status[k] : k \in Raised(sid) }

\* doctestProgram returned with a failure line for one symbol and a success
\* line for another symbol of the same file and for one of another file.
C3_Witness ==
  /\ pc = "done"
  /\ \E a \in DOMAIN allP, b \in DOMAIN allP, c \in DOMAIN allP :
       /\ a[1] = b[1] /\ a # b /\ c[1] # a[1]
       /\ LinesAt(a, "fail") # {}
       /\ LinesAt(b, "ok") # {}
       /\ LinesAt(c, "ok") # {}

(***************************************************************************)
(* C4                                                                      *)
(***************************************************************************)
\* C4: before setup has passed runTest is not called; once it has, runTest
\* has been called exactly once for each test unit of each symbol of each
\* file of the gathered tree and for nothing else, with that unit's code
\* lines and import lines, whatever the outcomes of the calls.
C4_OneCallPerTestUnit ==
  /\ ~Launched => calls = <<>>
  /\ Launched =>
       /\ docTests = gatherProgramDocTests(linked)
       /\ { calls[i].id : i \in DOMAIN calls } = TestIds(docTests)
       /\ Len(calls) = Cardinality(TestIds(docTests))
       /\ \A i \in DOMAIN calls :
            LET t == docTests[calls[i].id[1]].symbols[calls[i].id[2]].tests[calls[i].id[3]]
            IN  /\ calls[i].arg.codeArray = t.codeArray
                /\ calls[i].arg.importsArray = t.importsArray

\* A symbol with two calls and another symbol with a call in one run, one
\* call having raised while the others are pending.
C4_Witness ==
  /\ Len(calls) >= 3
  /\ \E k \in DOMAIN status :
       /\ status[k] \in Errors
       /\ \A j \in DOMAIN status \ {k} : status[j] = "pending"
  /\ \E a \in DOMAIN allP, b \in DOMAIN allP :
       a # b /\ Cardinality(IdsOf(a)) = 2 /\ Raised(a) # {}

(***************************************************************************)
(* Vocabulary of the aggregation properties, stated on the input           *)
(***************************************************************************)
\* The files present in linked.sourceFiles, in key order.
PresentFiles == SelectSeq(linked.sourceFiles, LAMBDA e : e # <<>>)

HasExportTable(e) == e[1].symbol # <<>> /\ e[1].symbol[1].exports # <<>>

\* The present files that have a symbol with an export table.
ExportingFiles == SelectSeq(PresentFiles, HasExportTable)

ExportsOf(e) == SelectSeq(e[1].symbol[1].exports[1], LAMBDA x : x # <<>>)

\* The custom tags of an exported symbol named `example` or `doctest`.
QualifyingTags(x) ==
  IF x[1].documentation = <<>> THEN <<>>
  ELSE IF x[1].documentation[1].customTags = <<>> THEN <<>>
  ELSE SelectSeq(x[1].documentation[1].customTags[1],
                 LAMBDA ct : ct.tagName = "example" \/ ct.tagName = "doctest")

Names(xs) == [i \in DOMAIN xs |-> xs[i].name]

\* The positions of the report lines printed for file f or one of its symbols.
LinesOfFile(f) == { i \in DOMAIN out : out[i].at[1] = f }

(***************************************************************************)
(* C5                                                                      *)
(***************************************************************************)
\* C5 as stated: every file present in the source-file mapping appears in
\* the gathered sequence, in order, and one without symbol or export table
\* appears with an empty symbol sequence.
C5_EveryPresentFileGathered ==
  Launched =>
    /\ Names(docTests) = [i \in DOMAIN PresentFiles |-> PresentFiles[i][1].moduleName]
    /\ \A i \in DOMAIN PresentFiles :
         ~HasExportTable(PresentFiles[i]) => docTests[i].symbols = <<>>

\* C5 amended: the gathered sequence holds, in order, exactly the present
\* files that have a symbol with an export table; one whose export table is
\* empty appears with an empty symbol sequence and gets the informational
\* line; a file with no symbol or no export table is dropped and no line
\* names it.
C5_ExportingFilesGathered ==
  Launched =>
    /\ Names(docTests) = [i \in DOMAIN ExportingFiles |-> ExportingFiles[i][1].moduleName]
    /\ \A i \in DOMAIN ExportingFiles :
         ExportsOf(ExportingFiles[i]) = <<>> =>
           /\ docTests[i].symbols = <<>>
           /\ \E n \in LinesAt(<<i>>, "fileNone") : out[n].name = docTests[i].name
    /\ \A i \in DOMAIN PresentFiles :
         ~HasExportTable(PresentFiles[i]) =>
           \A n \in DOMAIN out : out[n].name # PresentFiles[i][1].moduleName

\* A run over a file without export table, a file without symbol and a file
\* with an empty export table.
C5_Witness ==
  /\ Launched
  /\ \E i \in DOMAIN PresentFiles, j \in DOMAIN PresentFiles, k \in DOMAIN PresentFiles :
       /\ PresentFiles[i][1].symbol = <<>>
       /\ PresentFiles[j][1].symbol # <<>> /\ PresentFiles[j][1].symbol[1].exports = <<>>
       /\ HasExportTable(PresentFiles[k]) /\ ExportsOf(PresentFiles[k]) = <<>>

(***************************************************************************)
(* C6                                                                      *)
(***************************************************************************)
\* C6 as stated: every gathered symbol has at least one test unit.
C6_GatheredSymbolsHaveTests ==
  Launched => \A sid \in SymIds(docTests) : Len(TestsOf(docTests, sid)) > 0

\* C6 amended: the gathered symbols of a file are, in order, exactly its
\* exported symbols with at least one tag named `example` or `doctest`, each
\* with one test unit per such tag that has content; a symbol all of whose
\* qualifying tags lack content is gathered with an empty test sequence.
C6_GatheredSymbolsHaveQualifyingTags ==
  Launched =>
    /\ Len(docTests) = Len(ExportingFiles)
    /\ \A f \in DOMAIN docTests :
         LET expected == SelectSeq(ExportsOf(ExportingFiles[f]),
                                   LAMBDA x : Len(QualifyingTags(x)) > 0)
         IN  /\ Names(docTests[f].symbols) = [j \in DOMAIN expected |-> expected[j][1].name]
             /\ \A j \in DOMAIN expected :
                  Len(docTests[f].symbols[j].tests) =
                    Len(SelectSeq(QualifyingTags(expected[j]), LAMBDA ct : ct.content # <<>>))

\* A gathered symbol without test units, reported with its informational line.
C6_Witness ==
  /\ Launched
  /\ \E sid \in SymIds(docTests) :
       /\ Len(TestsOf(docTests, sid)) = 0
       /\ LinesAt(sid, "symNone") # {}

(***************************************************************************)
(* C7                                                                      *)
(***************************************************************************)
\* C7: a file with an export table none of whose symbols is gathered (none
\* has documentation, custom tags and a tag named `example` or `doctest`) is
\* in the gathered sequence with an empty symbol sequence; the report holds
\* exactly one line for it, the informational one, and runTest is never
\* called for it.
C7_FileWithoutDoctests ==
  Launched =>
    /\ Len(docTests) = Len(ExportingFiles)
    /\ \A f \in DOMAIN ExportingFiles :
         (\A j \in DOMAIN ExportsOf(ExportingFiles[f]) :
            QualifyingTags(ExportsOf(ExportingFiles[f])[j]) = <<>>) =>
           /\ docTests[f].name = ExportingFiles[f][1].moduleName
           /\ docTests[f].symbols = <<>>
           /\ Cardinality(LinesOfFile(f)) = 1
           /\ \A n \in LinesOfFile(f) :
                out[n].kind = "fileNone" /\ out[n].name = docTests[f].name
           /\ \A n \in DOMAIN calls : calls[n].id[1] # f

\* A file exporting a symbol without qualifying tag, reported next to a file
\* whose symbol is being tested.
C7_Witness ==
  /\ Launched
  /\ calls # <<>>
  /\ \E f \in DOMAIN ExportingFiles :
       /\ ExportsOf(ExportingFiles[f]) # <<>>
       /\ \A j \in DOMAIN ExportsOf(ExportingFiles[f]) :
            QualifyingTags(ExportsOf(ExportingFiles[f])[j]) = <<>>
       /\ LinesAt(<<f>>, "fileNone") # {}

(***************************************************************************)
(* C8                                                                      *)
(***************************************************************************)
\* C8 as stated: doctestProgram has not returned while a runTest call is
\* pending.
C8_PendingCallBlocksReturn ==
  pc = "done" => \A k \in DOMAIN status : status[k] # "pending"

\* C8 amended: doctestProgram has not returned while a runTest call is
\* pending, unless a call of the same symbol has raised: a symbol with a
\* pending call and no raised call keeps the report from completing, whatever
\* the outcomes of the calls of other symbols.
C8_PendingCallBlocksReturnUnlessSiblingRaised ==
  pc = "done" => \A sid \in DOMAIN allP : StillPending(sid) # {} => Raised(sid) # {}

\* doctestProgram returned while a call is pending whose sibling raised, and
\* all calls of another symbol completed.
C8_Witness ==
  /\ pc = "done"
  /\ \E sid \in DOMAIN allP, other \in DOMAIN allP :
       /\ StillPending(sid) # {}
       /\ Raised(sid) # {}
       /\ other # sid
       /\ Completed(other) = IdsOf(other)

(***************************************************************************)
(* C9                                                                      *)
(***************************************************************************)
\* C9: for a symbol with runTest calls, a success line is in the report only
\* when all its calls have completed without error, there is at most one,
\* and when all its calls have completed the line is printed or its handler
\* is ready to print it; it is printed once the symbol's callback has
\* settled, so whenever doctestProgram has returned.
C9_SuccessIffAllCompleted ==
  \A sid \in DOMAIN allP :
    /\ LinesAt(sid, "ok") # {} => Completed(sid) = IdsOf(sid)
    /\ Cardinality(LinesAt(sid, "ok")) <= 1
    /\ Completed(sid) = IdsOf(sid) =>
         /\ LinesAt(sid, "ok") # {} \/ ENABLED ThenHandler(sid)
         /\ (symP[sid].state # "pending" \/ pc = "done") => LinesAt(sid, "ok") # {}

\* doctestProgram returned; a symbol with several calls, all completed, has
\* its success line and a symbol with a raised call has none.
C9_Witness ==
  /\ pc = "done"
  /\ \E sid \in DOMAIN allP, other \in DOMAIN allP :
       /\ Cardinality(IdsOf(sid)) >= 2
       /\ Completed(sid) = IdsOf(sid)
       /\ LinesAt(sid, "ok") # {}
       /\ Raised(other) # {}
       /\ LinesAt(other, "ok") = {}

(***************************************************************************)
(* C10                                                                     *)
(***************************************************************************)
\* C10: a symbol has at most one failure line; it carries the error of the
\* call of that symbol that raised first in time; and an error appears in
\* the report nowhere else.
C10_FirstRejectWins ==
  /\ \A sid \in DOMAIN allP :
       /\ Cardinality(LinesAt(sid, "fail")) <= 1
       /\ \A i \in LinesAt(sid, "fail") :
            /\ firstRaised[sid] # <<>>
            /\ out[i].detail = status[firstRaised[sid]]
  /\ \A i \in DOMAIN out :
       out[i].kind = "fail" <=> (out[i].kind # "invoking" /\ out[i].detail \in Errors)
  /\ \A i \in DOMAIN out : out[i].kind = "fail" => out[i].at \in DOMAIN allP

\* doctestProgram returned; in one symbol the second call raised first and
\* the first call raised another error later; the failure line carries the
\* error of the second call.
C10_Witness ==
  /\ pc = "done"
  /\ \E sid \in DOMAIN allP :
       /\ firstRaised[sid] # <<>>
       /\ firstRaised[sid][3] = 2
       /\ status[<<sid[1], sid[2], 1>>] \in Errors
       /\ status[<<sid[1], sid[2], 1>>] # status[firstRaised[sid]]
       /\ \E i \in LinesAt(sid, "fail") : out[i].detail = status[firstRaised[sid]]

(***************************************************************************)
(* Vocabulary of the extraction properties, stated on the input            *)
(***************************************************************************)
\* The exported symbol that gathered symbol sid comes from.
SourceSymbol(sid) ==
  SelectSeq(ExportsOf(ExportingFiles[sid[1]]),
            LAMBDA x : Len(QualifyingTags(x)) > 0)[sid[2]]

\* The tag that test unit id comes from.
SourceTag(id) ==
  SelectSeq(QualifyingTags(SourceSymbol(<<id[1], id[2]>>)),
            LAMBDA ct : ct.content # <<>>)[id[3]]

\* The lines of the concatenated content of a tag.
ContentLines(tag) == Split(Join(tag.content[1]))

UnitOf(id) == docTests[id[1]].symbols[id[2]].tests[id[3]]

\* A line that is empty or consists solely of a line terminator.
BlankLine(l) == l = <<>> \/ l = <<"\n">> \/ l = <<"\r">> \/ l = <<"\r", "\n">>

(***************************************************************************)
(* C11                                                                     *)
(***************************************************************************)
\* C11: no code-line sequence and no import-line sequence of a gathered
\* test unit holds an empty line or a line that is only a line terminator.
C11_NoBlankLines ==
  Launched =>
    \A id \in TestIds(docTests) :
      /\ \A i \in DOMAIN UnitOf(id).codeArray : ~BlankLine(UnitOf(id).codeArray[i])
      /\ \A i \in DOMAIN UnitOf(id).importsArray : ~BlankLine(UnitOf(id).importsArray[i])

(***************************************************************************)
(* C12                                                                     *)
(***************************************************************************)
\* The elements of ls at the positions in S, in order.
Pick(ls, S) ==
  LET idx == SelectSeq([i \in 1..Len(ls) |-> i], LAMBDA i : i \in S)
  IN  [k \in DOMAIN idx |-> ls[idx[k]]]

NonBlankOf(ls) == SelectSeq(ls, LAMBDA l : ~BlankLine(l))

\* C12: for every gathered test unit, the non-blank lines of the
\* concatenated content of its tag are split between the two sequences:
\* some set of their positions gives, in source order and unmodified, the
\* non-blank import lines, and the remaining positions give the non-blank
\* code lines; and each sequence as a whole is a subsequence of the lines.
C12_LinesPartitioned ==
  Launched =>
    \A id \in TestIds(docTests) :
      LET ls == ContentLines(SourceTag(id))
          nb == { i \in DOMAIN ls : ~BlankLine(ls[i]) }
      IN  /\ \E I \in SUBSET nb :
               /\ NonBlankOf(UnitOf(id).importsArray) = Pick(ls, I)
               /\ NonBlankOf(UnitOf(id).codeArray) = Pick(ls, nb \ I)
          /\ \E S \in SUBSET DOMAIN ls : UnitOf(id).importsArray = Pick(ls, S)
          /\ \E S \in SUBSET DOMAIN ls : UnitOf(id).codeArray = Pick(ls, S)

\* A gathered unit of a content whose first line is indented code and whose
\* second line is an indented import.
C12_Witness ==
  /\ Launched
  /\ \E id \in TestIds(docTests) :
       /\ Len(ContentLines(SourceTag(id))) >= 2
       /\ UnitOf(id).importsArray = <<LineIndentedImport>>
       /\ UnitOf(id).codeArray = <<LineComment>>

(***************************************************************************)
(* C13                                                                     *)
(***************************************************************************)
\* After some leading white space the line reads `import`.
ImportAfterWhiteSpace(l) ==
  \E k \in 0..Len(l) :
    /\ \A j \in 1..k : l[j] = " " \/ l[j] = "\t" \/ l[j] = "\n" \/ l[j] = "\r"
    /\ Len(l) >= k + 6
    /\ SubSeq(l, k + 1, k + 6) = <<"i", "m", "p", "o", "r", "t">>

\* C13: the import sequence of a gathered test unit holds, untrimmed and in
\* order, exactly the lines of the content that read `import` after their
\* leading white space, and the code sequence holds the other non-blank
\* lines: `importantValue = 1` and `  import x` are import lines,
\* `// import x` is a code line, and the `add` example gives its first line
\* as the import sequence and its second as the code sequence.
C13_ImportPrefixRule ==
  Launched =>
    \A id \in TestIds(docTests) :
      LET ls == ContentLines(SourceTag(id))
          u == UnitOf(id)
      IN  /\ u.importsArray = SelectSeq(ls, ImportAfterWhiteSpace)
          /\ NonBlankOf(u.codeArray) =
               SelectSeq(NonBlankOf(ls), LAMBDA l : ~ImportAfterWhiteSpace(l))
          /\ \A i \in DOMAIN ls :
               /\ ls[i] \in {LineImportant, LineIndentedImport} =>
                    \E n \in DOMAIN u.importsArray : u.importsArray[n] = ls[i]
               /\ ls[i] = LineComment =>
                    \E n \in DOMAIN u.codeArray : u.codeArray[n] = ls[i]
          /\ SourceTag(id).content = Some(ContentMath) =>
               /\ u.importsArray = <<MathImportLine>>
               /\ u.codeArray = <<MathCodeLine>>

\* The gathered unit of the content `importantValue = 1` followed by
\* `  import x`: both are import lines, the second stored with its indent.
C13_Witness ==
  /\ Launched
  /\ \E id \in TestIds(docTests) :
       /\ ContentLines(SourceTag(id)) = <<LineImportant, LineIndentedImport>>
       /\ UnitOf(id).importsArray = <<LineImportant, LineIndentedImport>>
       /\ UnitOf(id).codeArray = <<>>

(***************************************************************************)
(* C14                                                                     *)
(***************************************************************************)
\* A tag with content: present, and not concatenating to the empty string.
HasContent(ct) == ct.content # <<>> /\ Join(ct.content[1]) # <<>>

\* C14: a gathered symbol has one test unit, and one call of runTest, per
\* qualifying tag that has content; a tag whose content is absent, an empty
\* sequence of fragments, or fragments concatenating to the empty string
\* contributes none.
C14_ContentlessTagsYieldNothing ==
  Launched =>
    \A sid \in SymIds(docTests) :
      LET n == Len(SelectSeq(QualifyingTags(SourceSymbol(sid)), HasContent))
      IN  /\ Len(TestsOf(docTests, sid)) = n
          /\ Cardinality({ i \in DOMAIN calls :
                             calls[i].id[1] = sid[1] /\ calls[i].id[2] = sid[2] }) = n

(***************************************************************************)
(* C15                                                                     *)
(***************************************************************************)
\* C15: an exported symbol without a tag named exactly `example` or
\* `doctest` (no documentation, no custom tags, other names only) is not
\* gathered; a gathered symbol has such a tag, and its test units are, in
\* tag order, the units of its tags of those names that have content, so a
\* tag of another name contributes none.
C15_OnlyExampleAndDoctestTags ==
  Launched =>
    /\ \A f \in DOMAIN ExportingFiles :
         \A j \in DOMAIN ExportsOf(ExportingFiles[f]) :
           LET x == ExportsOf(ExportingFiles[f])[j]
           IN  QualifyingTags(x) = <<>> =>
                 \A s \in DOMAIN docTests[f].symbols : docTests[f].symbols[s].name # x[1].name
    /\ \A sid \in SymIds(docTests) :
         LET tags == SelectSeq(QualifyingTags(SourceSymbol(sid)), LAMBDA ct : ct.content # <<>>)
         IN  /\ QualifyingTags(SourceSymbol(sid)) # <<>>
             /\ TestsOf(docTests, sid) = [j \in DOMAIN tags |-> gatherDocTest(tags[j])[1]]

\* A symbol tagged `Example` then `doctest`: one test unit, the one of the
\* `doctest` tag.
C15_Witness ==
  /\ Launched
  /\ \E sid \in SymIds(docTests) :
       LET tags == SourceSymbol(sid)[1].documentation[1].customTags[1]
       IN  /\ Len(tags) = 2
           /\ tags[1].tagName = "Example"
           /\ tags[2].tagName = "doctest"
           /\ Len(TestsOf(docTests, sid)) = 1
           /\ TestsOf(docTests, sid)[1].codeArray = ContentB

(***************************************************************************)
(* C16                                                                     *)
(***************************************************************************)
\* C16: when no package descriptor is found the run has aborted before
\* gathering: nothing was gathered, the report is empty, runTest was never
\* called, no promise exists, and no further step of the run is possible.
C16_AbortBeforeExtraction ==
  pc = "aborted" =>
    /\ docTests = <<>>
    /\ out = <<>>
    /\ calls = <<>>
    /\ status = <<>> /\ allP = <<>> /\ symP = <<>> /\ fileP = <<>>
    /\ ~ENABLED Next

\* An aborted run of a program that a run with a package reports on and
\* calls runTest for.
C16_Witness ==
  /\ pc = "aborted"
  /\ \E f \in DOMAIN gatherProgramDocTests(linked) :
       FileLaunchCalls(gatherProgramDocTests(linked), f) # <<>>

(***************************************************************************)
(* C17                                                                     *)
(***************************************************************************)
\* The positions in the report of the lines printed by the callback of
\* symbol sid and by its test callbacks and handlers.
LinesOfSymbol(sid) == { i \in DOMAIN out : out[i].at = sid }

\* C17: in every report, a symbol has at most one result line; when it has
\* one, a line announcing a runTest call was printed for each of its test
\* units, all before the result line, and the result line is the last line
\* of the symbol; every line of a symbol comes after the file line of its
\* file.
C17_PerSymbolPrintOrder ==
  \A sid \in SymIds(docTests) :
    /\ Cardinality(ResultLines(sid)) <= 1
    /\ \A r \in ResultLines(sid) :
         /\ Cardinality(LinesAt(sid, "invoking")) = Len(TestsOf(docTests, sid))
         /\ \A i \in LinesOfSymbol(sid) : i <= r
    /\ \A i \in LinesOfSymbol(sid) :
         \E h \in LinesAt(<<sid[1]>>, "file") : h < i

\* Two symbols of one file whose result lines are printed in the reverse of
\* the order in which their calls were announced.
C17_Witness ==
  \E sid \in SymIds(docTests), tid \in SymIds(docTests) :
    /\ sid[1] = tid[1]
    /\ \E i \in LinesAt(sid, "invoking"), j \in LinesAt(tid, "invoking"),
          r \in ResultLines(sid), q \in ResultLines(tid) :
         i < j /\ q < r

(***************************************************************************)
(* C18                                                                     *)
(***************************************************************************)
\* Test unit a comes before test unit b in the gathered program.
SourceOrder(a, b) ==
  \/ a[1] < b[1]
  \/ a[1] = b[1] /\ a[2] < b[2]
  \/ a[1] = b[1] /\ a[2] = b[2] /\ a[3] < b[3]

IsResult(l) == l.kind \in {"ok", "fail"}

\* C18: from the first suspension on, whatever has settled since, runTest
\* has been called once for every test unit of the gathered program, in
\* source order; every file has its file line and every symbol without test
\* units its informational line; and every line that is not a result line
\* precedes every result line.
C18_LaunchBeforeResume ==
  Launched =>
    /\ { calls[i].id : i \in DOMAIN calls } = TestIds(docTests)
    /\ \A i \in DOMAIN calls, j \in DOMAIN calls :
         i < j => SourceOrder(calls[i].id, calls[j].id)
    /\ \A f \in DOMAIN docTests :
         Cardinality(LinesAt(<<f>>, "file") \cup LinesAt(<<f>>, "fileNone")) = 1
    /\ \A sid \in SymIds(docTests) :
         TestsOf(docTests, sid) = <<>> => Cardinality(LinesAt(sid, "symNone")) = 1
    /\ \A i \in DOMAIN out, j \in DOMAIN out :
         (IsResult(out[i]) /\ ~IsResult(out[j])) => j < i

\* A result line of a symbol of the first file is printed while a call made
\* for the second file is pending, its file line and announcement printed.
C18_Witness ==
  /\ \E sid \in SymIds(docTests) : sid[1] = 1 /\ ResultLines(sid) # {}
  /\ \E k \in DOMAIN status :
       /\ k[1] = 2
       /\ status[k] = "pending"
       /\ LinesAt(<<2>>, "file") # {}
       /\ LinesAt(<<2, k[2]>>, "invoking") # {}

(***************************************************************************)
(* C19                                                                     *)
(***************************************************************************)
\* Every runTest call eventually settles, and the event loop eventually runs
\* a handler or a continuation that is ready.
FairSpec ==
  /\ Spec
  /\ WF_vars(\E id \in DOMAIN status : \E outcome \in {"ok", ErrorOf(id)} : Settle(id, outcome))
  /\ WF_vars(\E sid \in DOMAIN allP : ThenHandler(sid))
  /\ WF_vars(\E sid \in DOMAIN allP : CatchHandler(sid))
  /\ WF_vars(\E f \in DOMAIN fileP : FileJoin(f))
  /\ WF_vars(ProgramJoin)

\* Every symbol with test units has one result line, every symbol without
\* has one informational line and no result line, every file has one file
\* line.
CompleteReport ==
  /\ \A sid \in SymIds(docTests) :
       IF TestsOf(docTests, sid) # <<>>
       THEN /\ Cardinality(ResultLines(sid)) = 1
            /\ LinesAt(sid, "symNone") = {}
       ELSE /\ Cardinality(LinesAt(sid, "symNone")) = 1
            /\ ResultLines(sid) = {}
  /\ \A f \in DOMAIN docTests :
       Cardinality(LinesAt(<<f>>, "file") \cup LinesAt(<<f>>, "fileNone")) = 1

\* C19: once setup has succeeded, doctestProgram eventually returns, and
\* whenever it has returned the report is complete.
C19_TerminatesWithCompleteReport ==
  /\ Launched ~> (pc = "done")
  /\ [](pc = "done" => CompleteReport)

\* doctestProgram has returned after a run in which a call raised, with a
\* failure line for one symbol and an informational line for another.
C19_Witness ==
  /\ pc = "done"
  /\ \E sid \in SymIds(docTests) : LinesAt(sid, "fail") # {} /\ Raised(sid) # {}
  /\ \E sid \in SymIds(docTests) : LinesAt(sid, "symNone") # {}

====
